---- MODULE Spec2Model ----
(***************************************************************************)
(* Model of scripts/nai_director_script.py: the NovelAI request/response   *)
(* adapter call_novelai_api and the host entry point                       *)
(* NovelAIDirectorScript.run.                                              *)
(*                                                                         *)
(* Scalars are written as strings in Python literal notation ("28" is the  *)
(* int 28, "6.0" the float 6.0), so an int and a float stay different.     *)
(* A text (a response body, a message, a log line) is a sequence of        *)
(* tokens; a token stands for one character where lengths matter.          *)
(*                                                                         *)
(* The variable twin is a second execution of the same invocation that     *)
(* differs only in the API key and meets the same outcome of the POST; it  *)
(* is there to compare what the two executions log.                        *)
(***************************************************************************)
EXTENDS Integers, Sequences, FiniteSets, TLC

VARIABLES pc, call, args, headers, payload, posts, response, images, info, log,
          exc, processed, extra_generation_params, twin

vars == <<pc, call, args, headers, payload, posts, response, images, info, log,
          exc, processed, extra_generation_params, twin>>

(* ---------------------------------------------------------------------- *)
(* Python values                                                          *)
(* ---------------------------------------------------------------------- *)

None == "<None>"

\* "not x" for a str-or-None argument
Falsy(v) == v = None \/ v = ""

\* the first return value of call_novelai_api: None or a list of images
ImagesNone == [isNone |-> TRUE, list |-> <<>>]

ImagesList(l) == [isNone |-> FALSE, list |-> l]

\* "if images:" in run
Truthy(imgs) == ~imgs.isNone /\ imgs.list # <<>>

\* the arguments of run, before any call
NoArgs ==
    [enabled |-> FALSE, api_key |-> None, prompt |-> "", neg_prompt |-> "",
     width |-> "", height |-> "", steps |-> "", scale |-> "", sampler |-> "",
     seed |-> None, director_json_str |-> <<>>, p_seed |-> ""]

\* the request body, before it is built
NoPayload == [input |-> "", model |-> "", action |-> "", parameters |-> <<>>]

\* the outcome of the POST, before there is one
NoResponse == [kind |-> "none", status |-> 0, content_type |-> <<>>,
               text |-> <<>>, detail |-> ""]

\* the value run returns, before it returns
NoProcessed == [images |-> <<>>, info |-> <<>>, seed |-> "", made |-> FALSE]

\* response.text[:200]
TruncLen == 200

\* how far the long response bodies exceed TruncLen
Extra == 2

Pad(n) == [i \in 1..n |-> "x"]

\* int(x): TypeError on None, truncation of a float
IntRaises(v) == v = None

py_int(v) == CASE v = "42.0" -> "42"
               [] OTHER -> v

\* float(x)
py_float(v) == CASE v = "7" -> "7.0"
                 [] OTHER -> v

(* ---------------------------------------------------------------------- *)
(* Text helpers: str.strip, str.split('\n'), str.startswith, s[:n]        *)
(* ---------------------------------------------------------------------- *)

Whitespace == {" ", "\n", "\r", "\t"}

RECURSIVE LStrip(_)
LStrip(s) == IF s # <<>> /\ s[1] \in Whitespace THEN LStrip(Tail(s)) ELSE s

RECURSIVE RStrip(_)
RStrip(s) == IF s # <<>> /\ s[Len(s)] \in Whitespace
             THEN RStrip(SubSeq(s, 1, Len(s) - 1)) ELSE s

Strip(s) == RStrip(LStrip(s))

\* the k-th smallest element of a set of numbers
Nth(S, k) == CHOOSE i \in S : Cardinality({j \in S : j < i}) = k - 1

\* s.split('\n')
SplitLines(s) ==
    LET nl == {i \in 1..Len(s) : s[i] = "\n"}
        n == Cardinality(nl)
        first(k) == IF k = 1 THEN 1 ELSE Nth(nl, k - 1) + 1
        last(k) == IF k = n + 1 THEN Len(s) ELSE Nth(nl, k) - 1
    IN [k \in 1..(n + 1) |-> SubSeq(s, first(k), last(k))]

StartsWith(s, tok) == s # <<>> /\ s[1] = tok

Truncate(s, n) == IF Len(s) <= n THEN s ELSE SubSeq(s, 1, n)

Includes(s, tok) == \E i \in 1..Len(s) : s[i] = tok

(* ---------------------------------------------------------------------- *)
(* Python dicts: insertion-ordered sequences of <<key, value>> pairs      *)
(* ---------------------------------------------------------------------- *)

Has(d, k) == \E i \in 1..Len(d) : d[i][1] = k

Get(d, k) == d[CHOOSE i \in 1..Len(d) : d[i][1] = k][2]

Keys(d) == {d[i][1] : i \in 1..Len(d)}

\* d[k] = v
DictSet(d, k, v) ==
    IF Has(d, k)
    THEN [i \in 1..Len(d) |-> IF d[i][1] = k THEN <<k, v>> ELSE d[i]]
    ELSE Append(d, <<k, v>>)

\* base.update(d)
RECURSIVE DictUpdate(_, _)
DictUpdate(base, d) ==
    IF d = <<>> THEN base
    ELSE DictUpdate(DictSet(base, d[1][1], d[1][2]), Tail(d))

RECURSIVE Flatten(_)
Flatten(d) == IF d = <<>> THEN <<>> ELSE <<d[1][1], d[1][2]>> \o Flatten(Tail(d))

(* ---------------------------------------------------------------------- *)
(* json.loads on the Director Tools text.  An object is written           *)
(* <<"{", key, value, ..., "}">>; the other JSON values are one token.    *)
(* ---------------------------------------------------------------------- *)

\* the dict of the members key, value, key, value, ...: a repeated key keeps
\* its first position and takes its last value
PairsToDict(s) ==
    LET n == Len(s) \div 2
        key(i) == s[2 * i - 1]
        firsts == {i \in 1..n : \A j \in 1..(i - 1) : key(j) # key(i)}
        lastOf(i) == CHOOSE j \in 1..n :
                        key(j) = key(i) /\ \A m \in (j + 1)..n : key(m) # key(i)
    IN [k \in 1..Cardinality(firsts) |->
           <<key(Nth(firsts, k)), s[2 * lastOf(Nth(firsts, k))]>>]

JsonScalarType(tok) ==
    CASE tok = "[1,2]" -> "list"
      [] tok = "1"     -> "int"
      [] tok = "\"s\"" -> "str"
      [] tok = "true"  -> "bool"
      [] tok = "null"  -> "NoneType"
      [] tok = "NaN"   -> "float"
      [] OTHER         -> "invalid"

\* [raises |-> JSONDecodeError raised, type |-> Python type of the value,
\*  value |-> the dict when type = "dict"]
json_loads(text) ==
    LET s == Strip(text) IN
    IF Len(s) >= 2 /\ s[1] = "{" /\ s[Len(s)] = "}" /\ Len(s) % 2 = 0
    THEN [raises |-> FALSE, type |-> "dict",
          value |-> PairsToDict(SubSeq(s, 2, Len(s) - 1))]
    ELSE IF Len(s) = 1 /\ JsonScalarType(s[1]) # "invalid"
    THEN [raises |-> FALSE, type |-> JsonScalarType(s[1]), value |-> <<>>]
    ELSE [raises |-> TRUE, type |-> "invalid", value |-> <<>>]

(* ---------------------------------------------------------------------- *)
(* call_novelai_api, up to and including the POST                         *)
(* ---------------------------------------------------------------------- *)

MsgMissingKey == <<"Error: NovelAI API Key is missing.">>

MsgInvalidJson == <<"Error: Invalid JSON in Director Tools field: ", "<JSONDecodeError>">>

MsgNotDict == <<"Error: ", "Director Tools JSON must decode to a dictionary (object).">>

\* line 27
MissingKeyLax(api_key) == api_key = None

MissingKey(api_key) == Falsy(api_key)

\* lines 30-34
Headers(api_key) ==
    << <<"Authorization", "Bearer ", api_key>>,
       <<"Content-Type", "application/json">>,
       <<"accept", "application/json">> >>

\* line 90: http.client refuses to write a header value with a line break in
\* it, which requests.post lets through when the break ends the value
IllegalHeaderValue(hdrs) == hdrs # <<>> /\ hdrs[1][3] \in {"k3\n", "k4\n"}

\* the text of the ValueError http.client raises for it
InvalidHeaderText(hdrs) == <<"Invalid header value ", hdrs[1][2], hdrs[1][3]>>

\* lines 37-46: [error |-> the message returned, or <<>>, params |-> director_params]
ParseDirectorLax(director_json_str) ==
    IF director_json_str # <<>> /\ Strip(director_json_str) # <<>>
    THEN LET r == json_loads(director_json_str) IN
         IF r.raises THEN [error |-> MsgInvalidJson, params |-> <<>>]
         ELSE [error |-> <<>>, params |-> r.value]
    ELSE [error |-> <<>>, params |-> <<>>]

ParseDirector(director_json_str) ==
    IF director_json_str # <<>> /\ Strip(director_json_str) # <<>>
    THEN LET r == json_loads(director_json_str) IN
         IF r.raises THEN [error |-> MsgInvalidJson, params |-> <<>>]
         ELSE IF r.type # "dict" THEN [error |-> MsgNotDict, params |-> <<>>]
         ELSE [error |-> <<>>, params |-> r.value]
    ELSE [error |-> <<>>, params |-> <<>>]

\* lines 56-65
BuiltinParameters(a) ==
    << <<"negative_prompt", a.neg_prompt>>,
       <<"width", a.width>>,
       <<"height", a.height>>,
       <<"steps", py_int(a.steps)>>,
       <<"scale", py_float(a.scale)>>,
       <<"sampler", a.sampler>>,
       <<"seed", py_int(a.seed)>>,
       <<"qualityToggle", "True">>,
       <<"ucPreset", "0">> >>

\* lines 60-63: the conversions that raise
BuildRaises(a) == IntRaises(a.steps) \/ IntRaises(a.seed)

\* lines 77-78
MergeDirectorKeepBuiltin(parameters, director_params) ==
    DictUpdate(director_params, parameters)

MergeDirector(parameters, director_params) ==
    IF director_params # <<>> THEN DictUpdate(parameters, director_params)
    ELSE parameters

\* lines 52-78
BuildPayload(a, director_params) ==
    [input |-> a.prompt, model |-> "nai-diffusion-3", action |-> "generate",
     parameters |-> MergeDirector(BuiltinParameters(a), director_params)]

\* json.dumps(payload)
json_dumps(pl) ==
    <<"input", pl.input, "model", pl.model, "action", pl.action, "parameters">>
    \o Flatten(pl.parameters)

\* lines 81-86
RequestLog(hdrs, pl) ==
    << <<"--- Sending Payload to NovelAI ---">>,
       json_dumps(pl),
       <<"---------------------------------">> >>

\* the state of one execution of call_novelai_api: call is "sent" while the
\* POST is outstanding, "returned" after a return, "raised" when an exception
\* left the function
Returned(imgs, msg, hdrs, pl, n, lines) ==
    [call |-> "returned", headers |-> hdrs, payload |-> pl, posts |-> n,
     images |-> imgs, info |-> msg, log |-> lines, exc |-> ""]

Raised(e, hdrs, pl, n, lines) ==
    [call |-> "raised", headers |-> hdrs, payload |-> pl, posts |-> n,
     images |-> ImagesNone, info |-> <<>>, log |-> lines, exc |-> e]

\* lines 27-90, entered with the lines run already printed
Prepare(a, lines) ==
    IF MissingKey(a.api_key)
    THEN Returned(ImagesNone, MsgMissingKey, <<>>, NoPayload, 0, lines)
    ELSE LET hdrs == Headers(a.api_key)
             d == ParseDirector(a.director_json_str)
         IN IF d.error # <<>>
            THEN Returned(ImagesNone, d.error, hdrs, NoPayload, 0, lines)
            ELSE IF BuildRaises(a)
            THEN Raised("TypeError", hdrs, NoPayload, 0, lines)
            ELSE LET pl == BuildPayload(a, d.params) IN
                 [call |-> "sent", headers |-> hdrs, payload |-> pl,
                  posts |-> 1, images |-> ImagesNone, info |-> <<>>,
                  log |-> lines \o RequestLog(hdrs, pl), exc |-> ""]

(* ---------------------------------------------------------------------- *)
(* call_novelai_api, from the outcome of the POST to the return           *)
(* ---------------------------------------------------------------------- *)

MsgTimeout == <<"Error: Request to NovelAI timed out.">>

MsgZip == <<"Error: Zip response handling not implemented yet.">>

MsgJsonNotImpl == <<"Error: JSON response handling not implemented yet (unknown structure).">>

MsgStreamNoData == <<"Error: Could not parse image data from NovelAI stream. Status: ">>

MsgDecode == <<"Error decoding image data from NovelAI: ">>

MsgSuccess == <<"Successfully generated image via NovelAI.\nSeed: ">>

MsgJsonDecode == <<"Error: Failed to decode JSON response. Status: ">>

MsgUnexpectedType == <<"Error: Unexpected Content-Type from NovelAI: ">>

\* line 96: response.raise_for_status() raises HTTPError for 4xx and 5xx
RaisesHTTPError(status) == 400 <= status /\ status < 600

\* lines 107, 113, 137, 147: the branch taken for a response that did not raise
BranchJsonFirst(content_type, text) ==
    IF Includes(content_type, "application/zip") THEN "zip"
    ELSE IF Includes(content_type, "application/json") THEN "json"
    ELSE IF Includes(content_type, "text/event-stream")
            \/ StartsWith(Strip(text), "event:") THEN "stream"
    ELSE "other"

Branch(content_type, text) ==
    IF Includes(content_type, "application/zip") THEN "zip"
    ELSE IF Includes(content_type, "text/event-stream")
            \/ StartsWith(Strip(text), "event:") THEN "stream"
    ELSE IF Includes(content_type, "application/json") THEN "json"
    ELSE "other"

\* lines 115-120: b64_data, <<>> standing for both None and ''
RECURSIVE FirstData(_)
FirstData(lines) ==
    IF lines = <<>> THEN <<>>
    ELSE IF StartsWith(lines[1], "data:") THEN Strip(Tail(lines[1]))
    ELSE FirstData(Tail(lines))

b64_data(text) == FirstData(SplitLines(Strip(text)))

\* base64.b64decode followed by Image.open: the image, or the exception text
DecodeError(b64) ==
    CASE b64 = <<"PNG_B64">> -> ""
      [] b64 = <<"TXT_B64">> -> "cannot identify image file"
      [] OTHER -> "Incorrect padding"

DecodeImage(b64) == "PNG_IMAGE"

\* lines 115-135: [images, info, log] of the event-stream branch
StreamBranchEmptyList(o, seed) ==
    LET b64 == b64_data(o.text) IN
    IF b64 = <<>>
    THEN [images |-> ImagesList(<<>>),
          info |-> MsgSuccess,
          log |-> << <<"Could not find base64 data in event-stream response:\n">> \o o.text >>]
    ELSE IF DecodeError(b64) = ""
    THEN [images |-> ImagesList(<<DecodeImage(b64)>>),
          info |-> MsgSuccess \o <<seed, " (API might use/return a different one)\n(Check console logs for request details)">>,
          log |-> << <<"Image received and decoded from event stream.">> >>]
    ELSE [images |-> ImagesNone,
          info |-> MsgDecode \o <<DecodeError(b64)>>,
          log |-> << <<"Error decoding base64 data: ", DecodeError(b64)>> >>]

StreamBranchSecondData(o, seed) ==
    LET ls == SplitLines(Strip(o.text))
        ds == SelectSeq(ls, LAMBDA l : StartsWith(l, "data:"))
        b64 == IF ds = <<>> THEN <<>> ELSE Strip(Tail(ds[Len(ds)])) IN
    IF b64 = <<>>
    THEN [images |-> ImagesNone,
          info |-> MsgStreamNoData \o <<ToString(o.status)>>,
          log |-> << <<"Could not find base64 data in event-stream response:\n">> \o o.text >>]
    ELSE IF DecodeError(b64) = ""
    THEN [images |-> ImagesList(<<DecodeImage(b64)>>),
          info |-> MsgSuccess \o <<seed, " (API might use/return a different one)\n(Check console logs for request details)">>,
          log |-> << <<"Image received and decoded from event stream.">> >>]
    ELSE [images |-> ImagesNone,
          info |-> MsgDecode \o <<DecodeError(b64)>>,
          log |-> << <<"Error decoding base64 data: ", DecodeError(b64)>> >>]

StreamBranch(o, seed) ==
    LET b64 == b64_data(o.text) IN
    IF b64 = <<>>
    THEN [images |-> ImagesNone,
          info |-> MsgStreamNoData \o <<ToString(o.status)>>,
          log |-> << <<"Could not find base64 data in event-stream response:\n">> \o o.text >>]
    ELSE IF DecodeError(b64) = ""
    THEN [images |-> ImagesList(<<DecodeImage(b64)>>),
          info |-> MsgSuccess \o <<seed, " (API might use/return a different one)\n(Check console logs for request details)">>,
          log |-> << <<"Image received and decoded from event stream.">> >>]
    ELSE [images |-> ImagesNone,
          info |-> MsgDecode \o <<DecodeError(b64)>>,
          log |-> << <<"Error decoding base64 data: ", DecodeError(b64)>> >>]

\* lines 137-145
JsonBranch(o) ==
    IF json_loads(o.text).raises
    THEN MsgJsonDecode \o <<ToString(o.status), ", Content: ">> \o Truncate(o.text, TruncLen)
    ELSE MsgJsonNotImpl

\* line 149
OtherBranch(o) ==
    MsgUnexpectedType \o o.content_type \o <<". Status: ", ToString(o.status)>>

\* lines 157-163: error_details
HTTPErrorDetailsUntruncated(o) ==
    LET j == json_loads(o.text) IN
    <<"HTTP Error: ", ToString(o.status)>> \o
    (IF ~j.raises /\ j.type = "dict"
     THEN <<"\nNovelAI Message: ">> \o
          (IF Has(j.value, "message") THEN <<Get(j.value, "message")>> ELSE o.text)
     ELSE <<"\nResponse: ">> \o o.text)

HTTPErrorDetails(o) ==
    LET j == json_loads(o.text) IN
    <<"HTTP Error: ", ToString(o.status)>> \o
    (IF ~j.raises /\ j.type = "dict"
     THEN <<"\nNovelAI Message: ">> \o
          (IF Has(j.value, "message") THEN <<Get(j.value, "message")>> ELSE o.text)
     ELSE <<"\nResponse: ">> \o Truncate(o.text, TruncLen))

\* line 92
StatusLog(o) == <<"NovelAI Response Status Code: ", ToString(o.status)>>

\* lines 90-173: st is the execution with its POST outstanding, o the outcome
Finish(st, a, o) ==
    LET ret(imgs, msg, lines) ==
            Returned(imgs, msg, st.headers, st.payload, st.posts, st.log \o lines)
    IN
    CASE o.kind = "timeout" ->
           ret(ImagesNone, MsgTimeout, << <<"NovelAI request timed out.">> >>)
      [] o.kind = "connection" ->
           ret(ImagesNone, <<"Error: Network error connecting to NovelAI API: ", o.detail>>,
               << <<"Network error calling NovelAI API: ", o.detail>> >>)
      [] o.kind = "unexpected" ->
           ret(ImagesNone, <<"Unexpected Error: ", o.detail>>,
               << <<"!!! Unexpected Error in call_novelai_api !!!">>,
                  <<"Traceback (most recent call last): ...", o.detail>> >>)
      [] o.kind = "header" ->
           ret(ImagesNone, <<"Unexpected Error: ">> \o InvalidHeaderText(st.headers),
               << <<"!!! Unexpected Error in call_novelai_api !!!">>,
                  <<"Traceback (most recent call last): ...", "ValueError: ">>
                  \o InvalidHeaderText(st.headers) >>)
      [] o.kind = "response" ->
           IF RaisesHTTPError(o.status)
           THEN ret(ImagesNone, <<"NovelAI API Error: ">> \o HTTPErrorDetails(o),
                    << StatusLog(o), <<"NovelAI API HTTP Error: ">> \o HTTPErrorDetails(o) >>)
           ELSE LET b == Branch(o.content_type, o.text) IN
                CASE b = "zip" -> ret(ImagesNone, MsgZip, <<StatusLog(o)>>)
                  [] b = "stream" ->
                       LET r == StreamBranch(o, a.seed) IN
                       ret(r.images, r.info, <<StatusLog(o)>> \o r.log)
                  [] b = "json" -> ret(ImagesNone, JsonBranch(o), <<StatusLog(o)>>)
                  [] b = "other" -> ret(ImagesNone, OtherBranch(o), <<StatusLog(o)>>)

(* ---------------------------------------------------------------------- *)
(* NovelAIDirectorScript.run                                              *)
(* ---------------------------------------------------------------------- *)

\* processing.Processed(p, images, seed, info)
Processed(imgs, seed, text) ==
    [images |-> imgs, info |-> text, seed |-> seed, made |-> TRUE]

\* lines 257-274: st is the finished execution of call_novelai_api
RunTail(st, a) ==
    IF st.call = "raised"
    THEN [st EXCEPT !.pc = "raised"]
    ELSE IF Truthy(st.images)
    THEN [st EXCEPT !.pc = "done",
              !.log = @ \o << <<"NovelAI script: Successfully received ",
                                ToString(Len(st.images.list)), " image(s).">> >>,
              !.processed = Processed(st.images.list, py_int(a.seed), st.info)]
    ELSE [st EXCEPT !.pc = "done",
              !.log = @ \o << <<"NovelAI script: API call failed. Error: ">> \o st.info >>,
              !.extra_generation_params = DictSet(@, "NovelAI Error", st.info),
              !.processed = Processed(<<>>, a.p_seed,
                                      <<"NovelAI Generation Failed: ">> \o st.info)]

InRun(st) ==
    [pc |-> "waiting", call |-> st.call, headers |-> st.headers,
     payload |-> st.payload, posts |-> st.posts, images |-> st.images,
     info |-> st.info, log |-> st.log, exc |-> st.exc,
     processed |-> NoProcessed, extra_generation_params |-> <<>>]

Idle ==
    [pc |-> "idle", call |-> "none", headers |-> <<>>, payload |-> NoPayload,
     posts |-> 0, images |-> ImagesNone, info |-> <<>>, log |-> <<>>, exc |-> "",
     processed |-> NoProcessed, extra_generation_params |-> <<>>]

\* lines 235-255, and 257-274 when call_novelai_api ended without a POST
RunStart(a) ==
    IF ~a.enabled
    THEN [Idle EXCEPT !.pc = "done",
              !.log = << <<"NovelAI script: Disabled, skipping.">> >>,
              !.processed = Processed(<<>>, a.p_seed, <<>>)]
    ELSE LET st == InRun(Prepare(a,
                    << <<"NovelAI script: Enabled, attempting to override generation.">> >>))
         IN IF st.call = "sent" THEN st ELSE RunTail(st, a)

\* lines 90-173 and 257-274
RunResume(st, a, o) == RunTail(InRun(Finish(st, a, o)), a)

(* ---------------------------------------------------------------------- *)
(* Inputs                                                                 *)
(* ---------------------------------------------------------------------- *)

ApiKeys == {None, "", "k1", "k2", "k3\n"}

\* the same invocation under another user's key
OtherKey(k) ==
    CASE k = "k1" -> "k2"
      [] k = "k2" -> "k1"
      [] k = "k3\n" -> "k4\n"
      [] OTHER -> k

BlankBlobs == { <<>>, <<" ", "\n">> }

MalformedBlobs == { <<"{bad json">>, <<"{", "foo", "}">> }

NonObjectBlobs == { <<"[1,2]">>, <<"1">>, <<"\"s\"">>, <<"true">>, <<"null">>, <<"NaN">> }

ObjectBlobs == { <<"{", "}">>,
                 <<"{", "foo", "1", "}">>,
                 <<" ", "{", "seed", "7", "}", "\n">>,
                 <<"{", "foo", "1", "steps", "5", "foo", "2", "}">> }

Blobs == BlankBlobs \cup MalformedBlobs \cup NonObjectBlobs \cup ObjectBlobs

Seeds == {"-1", "42.0", None}

Scales == {"6.0", "7"}

Args ==
    [enabled : BOOLEAN, api_key : ApiKeys, prompt : {"a cat"}, neg_prompt : {"blurry"},
     width : {"512"}, height : {"768"}, steps : {"28"}, scale : Scales,
     sampler : {"k_euler_ancestral"}, seed : Seeds, director_json_str : Blobs,
     p_seed : {"123"}]

Statuses == {200, 201, 304, 401, 500}

ContentTypes == { <<"application/zip">>,
                  <<"text/event-stream", "; charset=utf-8">>,
                  <<"application/json">>,
                  <<"text/plain">>,
                  <<>> }

LongText == <<"<html>">> \o Pad(TruncLen + Extra)

LongJson ==
    <<"{">> \o [i \in 1..(2 * ((TruncLen + Extra) \div 2)) |->
                   IF i % 2 = 1 THEN "error" ELSE "x"] \o <<"}">>

Texts == { <<>>,
           <<"{", "message", "bad key", "}">>,
           <<"[1,2]">>,
           LongJson,
           LongText,
           <<"event:", "newImage", "\n", "data:", " ", "PNG_B64", "\r", "\n">>,
           <<" ", "event:", "newImage", "\n", " ", "data:", "PNG_B64">>,
           <<"data:", "TXT_B64">>,
           <<"data:", "BAD_B64">>,
           <<"data:", " ", "\n", "data:", "PNG_B64">>,
           <<"PNG_B64">> }

(* ---------------------------------------------------------------------- *)
(* State machine                                                          *)
(* ---------------------------------------------------------------------- *)

State ==
    [pc |-> pc, call |-> call, headers |-> headers, payload |-> payload,
     posts |-> posts, images |-> images, info |-> info, log |-> log, exc |-> exc,
     processed |-> processed, extra_generation_params |-> extra_generation_params]

Install(r) ==
    /\ pc' = r.pc
    /\ call' = r.call
    /\ headers' = r.headers
    /\ payload' = r.payload
    /\ posts' = r.posts
    /\ log' = r.log
    /\ images' = r.images
    /\ info' = r.info
    /\ exc' = r.exc
    /\ processed' = r.processed
    /\ extra_generation_params' = r.extra_generation_params

TwinArgs == [args EXCEPT !.api_key = OtherKey(@)]

Init ==
    /\ pc = "idle"
    /\ call = "none"
    /\ args = NoArgs
    /\ headers = <<>>
    /\ payload = NoPayload
    /\ posts = 0
    /\ response = NoResponse
    /\ log = <<>>
    /\ images = ImagesNone
    /\ info = <<>>
    /\ exc = ""
    /\ processed = NoProcessed
    /\ extra_generation_params = <<>>
    /\ twin = Idle

\* the host calls run(p, enabled, api_key, steps, sampler, scale, seed, director_tools_json)
Run(a) ==
    /\ pc = "idle"
    /\ args' = a
    /\ response' = NoResponse
    /\ Install(RunStart(a))
    /\ twin' = RunStart([a EXCEPT !.api_key = OtherKey(@)])

Outcome(o) ==
    /\ pc = "waiting"
    /\ response' = o
    /\ args' = args
    /\ Install(RunResume(State, args, o))
    /\ twin' = RunResume(twin, TwinArgs, o)

\* requests.post raises requests.exceptions.Timeout
Timeout ==
    Outcome([NoResponse EXCEPT !.kind = "timeout", !.detail = "Read timed out."])

\* requests.post raises another requests.exceptions.RequestException
ConnectionError ==
    Outcome([NoResponse EXCEPT !.kind = "connection", !.detail = "Connection refused"])

\* an exception that is no RequestException is raised inside the try
UnexpectedError ==
    Outcome([NoResponse EXCEPT !.kind = "unexpected", !.detail = "codec can't encode"])

\* requests.post raises the ValueError of http.client for the Authorization
\* header
HeaderRejected ==
    /\ IllegalHeaderValue(headers)
    /\ Outcome([NoResponse EXCEPT !.kind = "header"])

\* requests.post returns a response
Response(status, content_type, text) ==
    /\ ~IllegalHeaderValue(headers)
    /\ Outcome([kind |-> "response", status |-> status, content_type |-> content_type,
                text |-> text, detail |-> ""])

\* run has returned to the host, or raised into it; the per-call state is dropped
Render ==
    /\ pc \in {"done", "raised"}
    /\ args' = NoArgs
    /\ response' = NoResponse
    /\ Install(Idle)
    /\ twin' = Idle

Next ==
    \/ \E a \in Args : Run(a)
    \/ Timeout
    \/ ConnectionError
    \/ UnexpectedError
    \/ HeaderRejected
    \/ \E status \in Statuses, content_type \in ContentTypes, text \in Texts :
          Response(status, content_type, text)
    \/ Render

Spec == Init /\ [][Next]_vars

(* ---------------------------------------------------------------------- *)
(* Vocabulary of the properties                                           *)
(* ---------------------------------------------------------------------- *)

Called == args.enabled /\ pc # "idle"

KeyGiven == ~Falsy(args.api_key)

Is2xx(status) == 200 <= status /\ status <= 299

Is4xx5xx(status) == 400 <= status /\ status <= 599

GotResponse == response.kind = "response"

StatusText == ToString(response.status)

\* a status string, as opposed to an error message
IsStatusString(msg) == msg # <<>> /\ msg[1] = "Successfully generated image via NovelAI.\nSeed: "

IsErrorMessage(msg) == msg # <<>> /\ ~IsStatusString(msg)

NoImages == images.isNone

\* the override mapping the Director Tools text denotes
Overrides ==
    IF args.director_json_str \in ObjectBlobs
    THEN json_loads(args.director_json_str).value ELSE <<>>

\* the positions where a line prefixed with data: starts in the stripped body
DataStarts(t) == {i \in 1..Len(t) : t[i] = "data:" /\ (i = 1 \/ t[i - 1] = "\n")}

\* what follows data: on the first such line, without blanks
FirstRemainder(t) ==
    LET i == Nth(DataStarts(t), 1)
        ends == {j \in (i + 1)..Len(t) : t[j] = "\n"}
        e == IF ends = {} THEN Len(t) ELSE Nth(ends, 1) - 1
    IN SelectSeq(SubSeq(t, i + 1, e), LAMBDA c : c \notin Whitespace)

HasDataLine == DataStarts(Strip(response.text)) # {}

RemainderIsImage == HasDataLine /\ FirstRemainder(Strip(response.text)) = <<"PNG_B64">>

RemainderIsEmpty == HasDataLine /\ FirstRemainder(Strip(response.text)) = <<>>

DeclaredZip == Includes(response.content_type, "application/zip")

DeclaredStream ==
    \/ Includes(response.content_type, "text/event-stream")
    \/ StartsWith(Strip(response.text), "event:")

DeclaredJson == Includes(response.content_type, "application/json")

HandledAsStream ==
    GotResponse /\ Is2xx(response.status) /\ ~DeclaredZip /\ DeclaredStream

BodyIsJson == ~json_loads(response.text).raises

BodyIsJsonObject == BodyIsJson /\ json_loads(response.text).type = "dict"

BodyHasMessage == BodyIsJsonObject /\ Has(json_loads(response.text).value, "message")

\* the error of the HTTP-error path is the status code followed by detail
HTTPErrorWith(label, detail) ==
    /\ NoImages
    /\ info = <<"NovelAI API Error: ", "HTTP Error: ", StatusText, label>> \o detail

(* ---------------------------------------------------------------------- *)
(* Properties                                                             *)
(* ---------------------------------------------------------------------- *)

\* C1: every result call_novelai_api returns is either a non-empty list of
\* decoded images with a status string, or no images with a non-empty error
\* message; never images with an error, never neither.
C1_ResultShape ==
    call = "returned" =>
        \/ /\ ~images.isNone
           /\ images.list # <<>>
           /\ IsStatusString(info)
        \/ /\ images.isNone
           /\ IsErrorMessage(info)

C1_Witness ==
    /\ call = "returned"
    /\ ~images.isNone
    /\ Len(images.list) = 1
    /\ IsStatusString(info)

\* C2: no exception escapes call_novelai_api or run, whatever the inputs and
\* whatever the remote service does.
C2_NoExceptionEscapes == call # "raised" /\ pc # "raised" /\ exc = ""

\* C3: with an absent or empty API key the call returns at once with no images
\* and the credentials error, and no POST is made, whatever the other arguments.
C3_MissingKey ==
    (Called /\ ~KeyGiven) =>
        /\ pc = "done"
        /\ call = "returned"
        /\ NoImages
        /\ info = <<"Error: NovelAI API Key is missing.">>
        /\ posts = 0
        /\ response.kind = "none"

C3_Witness ==
    /\ Called
    /\ args.api_key = ""
    /\ args.director_json_str \in MalformedBlobs
    /\ args.seed = None
    /\ call = "returned"

\* C4: with a key, a non-blank override text that is not well-formed JSON gives
\* no images and a parse error, one that parses to a non-object gives no images
\* and a different, validation error, in both cases without a POST; a blank
\* text is no error.
C4_OverrideValidation ==
    (Called /\ KeyGiven) =>
        /\ args.director_json_str \in MalformedBlobs =>
              /\ call = "returned"
              /\ NoImages
              /\ StartsWith(info, "Error: Invalid JSON in Director Tools field: ")
              /\ posts = 0
        /\ args.director_json_str \in NonObjectBlobs =>
              /\ call = "returned"
              /\ NoImages
              /\ info = <<"Error: ", "Director Tools JSON must decode to a dictionary (object).">>
              /\ ~StartsWith(info, "Error: Invalid JSON in Director Tools field: ")
              /\ posts = 0
        /\ args.director_json_str \in BlankBlobs =>
              /\ ~StartsWith(info, "Error: Invalid JSON in Director Tools field: ")
              /\ info # <<"Error: ", "Director Tools JSON must decode to a dictionary (object).">>
              /\ args.seed # None => posts = 1

C4_Witness ==
    /\ Called
    /\ KeyGiven
    /\ args.director_json_str = <<"[1,2]">>
    /\ call = "returned"
    /\ posts = 0

\* C5: in the POSTed body, parameters is the built-in parameters overwritten by
\* the override mapping, and input, model and action are as with no overrides.
C5_MergedParameters ==
    posts >= 1 =>
        LET built == BuiltinParameters(args)
            params == payload.parameters
        IN /\ \A k \in Keys(Overrides) :
                 Has(params, k) /\ Get(params, k) = Get(Overrides, k)
           /\ \A k \in Keys(built) \ Keys(Overrides) :
                 Has(params, k) /\ Get(params, k) = Get(built, k)
           /\ Keys(params) = Keys(built) \cup Keys(Overrides)
           /\ payload.input = args.prompt
           /\ payload.model = "nai-diffusion-3"
           /\ payload.action = "generate"

C5_Witness ==
    /\ posts >= 1
    /\ Has(Overrides, "steps")
    /\ Has(Overrides, "foo")
    /\ Get(payload.parameters, "steps") = "5"
    /\ Get(payload.parameters, "foo") = "2"
    /\ Get(payload.parameters, "seed") = "42"

\* C6: one invocation sends at most one POST, exactly one when the key is
\* non-empty and the override text is valid, and none is added after the POST
\* has failed.
C6_SinglePost ==
    /\ posts <= 1
    /\ (Called /\ KeyGiven /\ args.director_json_str \in BlankBlobs \cup ObjectBlobs)
          => posts = 1

\* C7, as claimed: a 2xx response handled as an event stream gives exactly one
\* image when the first data: line holds valid base64 image bytes, and otherwise
\* no images and an error that includes the HTTP status code.
C7_StreamAsClaimed ==
    (HandledAsStream /\ pc = "done") =>
        IF RemainderIsImage
        THEN ~images.isNone /\ Len(images.list) = 1
        ELSE NoImages /\ IsErrorMessage(info) /\ Includes(info, StatusText)

\* C7, amended: exactly one image when the first data: line holds valid base64
\* image bytes; no images and an error with the status code when there is no
\* data: line or the first one is empty; no images and an error with the
\* decoder's exception text, without the status code, when decoding fails.
C7_StreamAmended ==
    (HandledAsStream /\ pc = "done") =>
        IF RemainderIsImage
        THEN ~images.isNone /\ Len(images.list) = 1
        ELSE IF ~HasDataLine \/ RemainderIsEmpty
        THEN NoImages /\ IsErrorMessage(info) /\ Includes(info, StatusText)
        ELSE /\ NoImages
             /\ StartsWith(info, "Error decoding image data from NovelAI: ")
             /\ info[2] \in {"Incorrect padding", "cannot identify image file"}
             /\ ~Includes(info, StatusText)

C7_Witness ==
    /\ HandledAsStream
    /\ pc = "done"
    /\ HasDataLine
    /\ ~RemainderIsImage
    /\ ~RemainderIsEmpty
    /\ NoImages

\* C8, as claimed: every response whose status is not 2xx skips the
\* classification and gives no images and an error with the status code,
\* followed by the body's message field when the body is JSON with one, and
\* otherwise by the body cut to its first 200 characters.
C8_HTTPErrorAsClaimed ==
    (GotResponse /\ ~Is2xx(response.status) /\ pc = "done") =>
        IF BodyHasMessage
        THEN HTTPErrorWith("\nNovelAI Message: ", <<Get(json_loads(response.text).value, "message")>>)
        ELSE /\ NoImages
             /\ SubSeq(info, 1, 3) = <<"NovelAI API Error: ", "HTTP Error: ", StatusText>>
             /\ SubSeq(info, 5, Len(info)) = Truncate(response.text, TruncLen)

\* C8, amended: every 4xx or 5xx response skips the classification and gives no
\* images and an error with the status code, followed by the message field when
\* the body is a JSON object with one, by the whole body when it is a JSON
\* object without one, and otherwise by the body cut to its first 200
\* characters; a status that is neither 2xx nor 4xx/5xx is classified by content
\* type.
C8_HTTPErrorAmended ==
    (GotResponse /\ ~Is2xx(response.status) /\ pc = "done") =>
        IF ~Is4xx5xx(response.status)
        THEN ~StartsWith(info, "NovelAI API Error: ")
        ELSE IF BodyHasMessage
        THEN HTTPErrorWith("\nNovelAI Message: ", <<Get(json_loads(response.text).value, "message")>>)
        ELSE IF BodyIsJsonObject
        THEN HTTPErrorWith("\nNovelAI Message: ", response.text)
        ELSE HTTPErrorWith("\nResponse: ", Truncate(response.text, TruncLen))

C8_Witness ==
    /\ GotResponse
    /\ response.status = 401
    /\ pc = "done"
    /\ ~BodyIsJson
    /\ Len(response.text) > TruncLen
    /\ Len(info) = 4 + TruncLen

\* C9: the API key is in no log line, two calls that differ only in their
\* non-empty key and meet the same outcome log the same lines, and the log holds
\* the full request body with the merged overrides and the status code.
C9_KeyNotLogged ==
    (Called /\ KeyGiven) =>
        /\ \A i \in 1..Len(log) : ~Includes(log[i], args.api_key)
        /\ twin.log = log
        /\ posts >= 1 => \E i \in 1..Len(log) :
              /\ log[i] = <<"input", payload.input, "model", payload.model,
                            "action", payload.action, "parameters">>
                          \o Flatten(payload.parameters)
              /\ \A k \in Keys(Overrides) : Includes(log[i], k)
        /\ GotResponse => \E i \in 1..Len(log) : Includes(log[i], StatusText)

\* C10, as claimed: a 2xx response is classified in the order zip, event-stream
\* (or a body beginning with event:), JSON, anything else; zip and JSON give
\* their own "not implemented" errors and no images, anything else gives an
\* "unexpected content type" error with the status code and the declared type.
C10_BranchesAsClaimed ==
    (GotResponse /\ Is2xx(response.status) /\ pc = "done") =>
        IF DeclaredZip
        THEN NoImages /\ info = <<"Error: Zip response handling not implemented yet.">>
        ELSE IF DeclaredStream
        THEN \/ ~images.isNone
             \/ StartsWith(info, "Error: Could not parse image data from NovelAI stream. Status: ")
             \/ StartsWith(info, "Error decoding image data from NovelAI: ")
        ELSE IF DeclaredJson
        THEN NoImages /\ info = <<"Error: JSON response handling not implemented yet (unknown structure).">>
        ELSE /\ NoImages
             /\ info = <<"Error: Unexpected Content-Type from NovelAI: ">>
                       \o response.content_type \o <<". Status: ", StatusText>>

\* C10, amended: as claimed, except that the JSON branch gives its "not
\* implemented" error only when the body parses as JSON, and otherwise a "failed
\* to decode JSON response" error with the status code and the body cut to its
\* first 200 characters; no branch but the event-stream one returns images.
C10_BranchesAmended ==
    (GotResponse /\ Is2xx(response.status) /\ pc = "done") =>
        IF DeclaredZip
        THEN NoImages /\ info = <<"Error: Zip response handling not implemented yet.">>
        ELSE IF DeclaredStream
        THEN \/ ~images.isNone
             \/ StartsWith(info, "Error: Could not parse image data from NovelAI stream. Status: ")
             \/ StartsWith(info, "Error decoding image data from NovelAI: ")
        ELSE IF DeclaredJson /\ BodyIsJson
        THEN NoImages /\ info = <<"Error: JSON response handling not implemented yet (unknown structure).">>
        ELSE IF DeclaredJson
        THEN /\ NoImages
             /\ info = <<"Error: Failed to decode JSON response. Status: ", StatusText, ", Content: ">>
                       \o Truncate(response.text, TruncLen)
        ELSE /\ NoImages
             /\ info = <<"Error: Unexpected Content-Type from NovelAI: ">>
                       \o response.content_type \o <<". Status: ", StatusText>>

C10_Witness ==
    /\ GotResponse
    /\ Is2xx(response.status)
    /\ pc = "done"
    /\ DeclaredJson
    /\ ~DeclaredStream
    /\ ~BodyIsJson
    /\ Len(response.text) > TruncLen

====
